---- MODULE Spec2Model ----
(***************************************************************************)
(* MultiStreamRecorder (src/src/core/multi_stream_recorder.py): the main   *)
(* thread running run(), one recording thread per target running          *)
(* _record_stream(), the shared stop_event, and the environment the        *)
(* recorder talks to (TikTok API, chunk source, file system, clock,        *)
(* operator interrupts).  Every step of a thread is one read or write of   *)
(* shared state or one external call, followed by the thread-local code    *)
(* up to the next such point.                                              *)
(***************************************************************************)
EXTENDS Integers, Sequences, FiniteSets, TLC

VARIABLES
    targets,            \* self.targets: the user of each target, in order
    mode,               \* self.mode
    automatic_interval, \* self.automatic_interval (minutes)
    duration,           \* self.duration (seconds; 0 models None)
    use_telegram,       \* self.use_telegram
    stop_event,         \* self.stop_event (threading.Event)
    recording_threads,  \* self.recording_threads: target index of each thread
    thread,             \* per recording thread: position and locals
    main,               \* the main thread: position in run() and locals
    live,               \* environment: is the user's broadcast live
    cur_room,           \* environment: the user's current room id
    faults,             \* environment: exceptions it may still raise
    interrupts,         \* environment: KeyboardInterrupts still to come
    live_changes,       \* environment: liveness changes still to come
    chunks              \* environment: chunks the sources may still deliver

cfgVars == <<targets, mode, automatic_interval, duration, use_telegram>>
envVars == <<live, cur_room, faults, interrupts, live_changes, chunks>>
vars == <<cfgVars, stop_event, recording_threads, thread, main, envVars>>

-----------------------------------------------------------------------------
(* Bounds of the model *)

MaxChunks == 3
TaskChunks == 1
RunChunks == 1
MaxDuration == 2
MaxFaults == 1
RunFaults == 1
MaxInterrupts == 1
RunInterrupts == 2
TwoInterrupts == 1
MaxLiveChanges == 1
WriterLiveChanges == 1
MaxRooms == 2
PairFaults == 1
PairChunks == 1
CallCap == 2

(* Program constants *)

KiB == 1024
buffer_size == 512 * KiB
SecondsPerMinute == 60

Users == {"u1", "u2"}
Workers == {1, 2}
Modes == {"MANUAL", "AUTOMATIC"}
ChunkSizes == {200 * KiB, 512 * KiB}
ElapsedCap == MaxDuration + 1
NoChunk == [id |-> 0, len |-> 0]

-----------------------------------------------------------------------------
(* Helpers *)

RECURSIVE ByteLen(_)
ByteLen(s) == IF s = <<>> THEN 0 ELSE Head(s).len + ByteLen(Tail(s))

Bump(n) == IF n < CallCap THEN n + 1 ELSE n

UserOf(w) == targets[w]

ThreadsOf == {recording_threads[k] : k \in 1 .. Len(recording_threads)}

is_alive(w) == thread[w].pc \notin {"unstarted", "done"}

\* tiktok.is_room_alive(recorder.room_id), as the environment answers it
is_room_alive(w) == live[UserOf(w)] /\ thread[w].room_id = cur_room[UserOf(w)]

\* tiktok.get_room_id_from_user(recorder.user)
get_room_id_from_user(w) == cur_room[UserOf(w)]

ExceptionKinds == {"UserLiveException", "Exception"}

\* (mutant) the thread name without the target's position
thread_name_NoIndex(w) == "Stream-" \o UserOf(w)

\* thread_name = f"Stream-{i+1}" + f"-{user}", for the thread of target w
thread_name(w) == "Stream-" \o ToString(w) \o "-" \o UserOf(w)

\* output_suffix = f"_{thread_name}" if len(self.targets) > 1 else ""
output_suffix(w) == IF Len(targets) > 1 THEN "_" \o thread_name(w) ELSE ""

\* values of time.strftime("%Y.%m.%d_%H-%M-%S") two threads may read
Dates == {"2026.11.03_10-00-00", "2026.11.03_10-00-01"}

\* user_folder = f"{base_output}{recorder.user}/", with no output directory set
user_folder(w) == UserOf(w) \o "/"

\* output = f"{user_folder}TK_{recorder.user}_{current_date}{output_suffix}_flv.mp4"
output(w, current_date) ==
    user_folder(w) \o "TK_" \o UserOf(w) \o "_" \o current_date
       \o output_suffix(w) \o "_flv.mp4"

InitThread ==
    [pc |-> "unstarted", room_id |-> 0, wait_i |-> 0,
     stop_recording |-> FALSE, brk |-> FALSE, elapsed |-> 0,
     buffer |-> <<>>, out_file |-> <<>>, appended |-> <<>>, chunk |-> NoChunk,
     file_open |-> FALSE, outcome |-> "none", reason |-> "none",
     saw_stop |-> FALSE,
     n_alive |-> 0, n_url |-> 0, n_open |-> 0,
     n_fetch |-> 0, n_write |-> 0, n_remux |-> 0, n_upload |-> 0]

-----------------------------------------------------------------------------
(* The main thread: run, _wait_for_completion, stop_all_recordings *)

\* for i, (url, user, room_id) in enumerate(self.targets): Thread(...); append
run_spawn_loop ==
    /\ main.pc = "spawn_loop"
    /\ IF main.i <= Len(targets)
       THEN /\ recording_threads' = Append(recording_threads, main.i)
            /\ main' = [main EXCEPT !.pc = "spawn_start"]
       ELSE /\ main' = [main EXCEPT !.pc = "wait_poll", !.ctx = "wait"]
            /\ UNCHANGED recording_threads
    /\ UNCHANGED <<cfgVars, stop_event, thread, envVars>>

\* an exception caught by run's "except Exception" handler
run_except_Exception ==
    /\ main' = [main EXCEPT !.pc = "stop_set", !.ctx = "run_except"]

\* thread.start()
run_thread_start ==
    /\ main.pc = "spawn_start"
    /\ \/ /\ thread' = [thread EXCEPT ![main.i].pc = "init"]
          /\ main' = [main EXCEPT !.pc = "spawn_sleep"]
          /\ UNCHANGED faults
       \/ /\ faults > 0
          /\ faults' = faults - 1
          /\ run_except_Exception
          /\ UNCHANGED thread
    /\ UNCHANGED <<cfgVars, stop_event, recording_threads, live, cur_room,
                   interrupts, live_changes, chunks>>

\* time.sleep(1) between two thread starts
run_spawn_sleep ==
    /\ main.pc = "spawn_sleep"
    /\ main' = [main EXCEPT !.pc = "spawn_loop", !.i = @ + 1]
    /\ UNCHANGED <<cfgVars, stop_event, recording_threads, thread, envVars>>

\* while any(thread.is_alive() for thread in self.recording_threads)
wait_for_completion_poll ==
    /\ main.pc = "wait_poll"
    /\ IF \E w \in ThreadsOf : is_alive(w)
       THEN main' = [main EXCEPT !.pc = "wait_sleep"]
       ELSE main' = [main EXCEPT !.pc = "returned"]
    /\ UNCHANGED <<cfgVars, stop_event, recording_threads, thread, envVars>>

\* time.sleep(1) in _wait_for_completion
wait_for_completion_sleep ==
    /\ main.pc = "wait_sleep"
    /\ main' = [main EXCEPT !.pc = "wait_poll"]
    /\ UNCHANGED <<cfgVars, stop_event, recording_threads, thread, envVars>>

\* Where a KeyboardInterrupt raised in the main thread is caught
InterruptTarget(ctx) ==
    CASE ctx = "run" -> [pc |-> "stop_set", ctx |-> "run_except"]
      [] ctx = "wait" -> [pc |-> "stop_set", ctx |-> "wait_except"]
      [] ctx = "wait_except" -> [pc |-> "stop_set", ctx |-> "run_except"]
      [] OTHER -> [pc |-> "raised", ctx |-> "none"]

\* KeyboardInterrupt delivered to the main thread, at any point of run
KeyboardInterrupt ==
    /\ main.pc \notin {"returned", "raised"}
    /\ interrupts > 0
    /\ interrupts' = interrupts - 1
    /\ main' = [main EXCEPT !.pc = InterruptTarget(main.ctx).pc,
                            !.ctx = InterruptTarget(main.ctx).ctx]
    /\ UNCHANGED <<cfgVars, stop_event, recording_threads, thread, live,
                   cur_room, faults, live_changes, chunks>>

\* self.stop_event.set()
stop_all_recordings_set ==
    /\ main.pc = "stop_set"
    /\ stop_event' = TRUE
    /\ main' = [main EXCEPT !.pc = "stop_join", !.j = 1,
                            !.joined = [w \in Workers |-> "none"]]
    /\ UNCHANGED <<cfgVars, recording_threads, thread, envVars>>

\* (mutant) the loop that never joins a thread
stop_all_recordings_loop_NoJoin ==
    /\ main.pc = "stop_join"
    /\ IF main.j > Len(recording_threads)
       THEN main' = [main EXCEPT !.pc = "returned"]
       ELSE main' = [main EXCEPT !.j = @ + 1]
    /\ UNCHANGED <<cfgVars, stop_event, recording_threads, thread, envVars>>

\* for thread in self.recording_threads: if thread.is_alive(): ...
stop_all_recordings_loop ==
    /\ main.pc = "stop_join"
    /\ IF main.j > Len(recording_threads)
       THEN main' = [main EXCEPT !.pc = "returned"]
       ELSE IF is_alive(recording_threads[main.j])
            THEN main' = [main EXCEPT !.pc = "stop_joining"]
            ELSE main' = [main EXCEPT !.j = @ + 1]
    /\ UNCHANGED <<cfgVars, stop_event, recording_threads, thread, envVars>>

\* (mutant) the join without a timeout
stop_all_recordings_join_Blocking ==
    /\ main.pc = "stop_joining"
    /\ ~is_alive(recording_threads[main.j])
    /\ main' = [main EXCEPT !.pc = "stop_join", !.j = @ + 1,
                  !.joined[recording_threads[main.j]] = "ended"]
    /\ UNCHANGED <<cfgVars, stop_event, recording_threads, thread, envVars>>

\* thread.join(timeout=5) returns: the thread ended, or the timeout elapsed
stop_all_recordings_join ==
    /\ main.pc = "stop_joining"
    /\ LET w == recording_threads[main.j]
       IN main' = [main EXCEPT !.pc = "stop_join", !.j = @ + 1,
                     !.joined[w] = IF is_alive(w) THEN "timeout" ELSE "ended"]
    /\ UNCHANGED <<cfgVars, stop_event, recording_threads, thread, envVars>>

MainStep ==
    \/ run_spawn_loop
    \/ run_thread_start
    \/ run_spawn_sleep
    \/ wait_for_completion_poll
    \/ wait_for_completion_sleep
    \/ stop_all_recordings_set
    \/ stop_all_recordings_loop
    \/ stop_all_recordings_join

-----------------------------------------------------------------------------
(* A recording thread: _record_stream and what it calls *)

Shared == <<cfgVars, stop_event, recording_threads, main, live, cur_room,
            interrupts, live_changes>>

Others == <<Shared, chunks>>

NoFault == UNCHANGED faults

Fault == faults > 0 /\ faults' = faults - 1

\* (mutant) manual mode that starts over instead of returning
ManualReturn_Again(t) == [t EXCEPT !.pc = IF mode = "MANUAL" THEN "m_stop" ELSE "a_while"]

\* _manual_mode_with_stop_event returns to its caller:
\* _run_recorder_with_stop_event (then the thread ends) or the automatic loop
ManualReturn(t) ==
    IF mode = "MANUAL"
    THEN [t EXCEPT !.pc = "done", !.outcome = "returned"]
    ELSE [t EXCEPT !.pc = "a_while"]

\* An exception leaves _manual_mode_with_stop_event or the resolve call: in manual
\* mode _record_stream's handlers log it; in automatic mode UserLiveException
\* starts the retry wait and any other exception breaks out of the loop
Raise(t, kind) ==
    IF mode = "MANUAL"
    THEN [t EXCEPT !.pc = "done", !.outcome = kind]
    ELSE IF kind = "UserLiveException"
         THEN [t EXCEPT !.pc = "w_check", !.wait_i = 0]
         ELSE [t EXCEPT !.pc = "done", !.outcome = kind]

\* (mutant) the thread whose failure stops every recording
record_stream_Escapes(w) ==
    /\ thread[w].pc = "init"
    /\ \/ /\ NoFault
          /\ thread' = [thread EXCEPT ![w].room_id = get_room_id_from_user(w),
                          ![w].pc = IF mode = "MANUAL" THEN "m_stop" ELSE "a_while"]
          /\ UNCHANGED stop_event
       \/ /\ Fault
          /\ thread' = [thread EXCEPT ![w].pc = "done", ![w].outcome = "Exception"]
          /\ stop_event' = TRUE
    /\ UNCHANGED <<cfgVars, recording_threads, main, live, cur_room,
                   interrupts, live_changes, chunks>>

\* recorder = TikTokRecorder(...); self._run_recorder_with_stop_event(...)
record_stream(w) ==
    /\ thread[w].pc = "init"
    /\ \/ /\ NoFault
          /\ thread' = [thread EXCEPT ![w].room_id = get_room_id_from_user(w),
                          ![w].pc = IF mode = "MANUAL" THEN "m_stop" ELSE "a_while"]
       \/ /\ Fault
          /\ \E kind \in ExceptionKinds :
               thread' = [thread EXCEPT ![w].pc = "done", ![w].outcome = kind]
    /\ UNCHANGED Others

\* if self.stop_event.is_set(): return
manual_mode_stop_check(w) ==
    /\ thread[w].pc = "m_stop"
    /\ LET t == thread[w]
       IN thread' = [thread EXCEPT ![w] =
                       IF stop_event
                       THEN ManualReturn([t EXCEPT !.saw_stop = TRUE])
                       ELSE [t EXCEPT !.pc = "m_alive"]]
    /\ UNCHANGED <<Others, faults>>

\* (mutant) the liveness check whose answer is ignored
manual_mode_is_room_alive_Unchecked(w) ==
    /\ thread[w].pc = "m_alive"
    /\ thread' = [thread EXCEPT ![w].pc = "get_url", ![w].n_alive = Bump(@)]
    /\ UNCHANGED <<Others, faults>>

\* if not recorder.tiktok.is_room_alive(recorder.room_id): raise UserLiveException
manual_mode_is_room_alive(w) ==
    /\ thread[w].pc = "m_alive"
    /\ LET t == [thread[w] EXCEPT !.n_alive = Bump(@)]
       IN \/ /\ NoFault
             /\ thread' = [thread EXCEPT ![w] =
                             IF is_room_alive(w)
                             THEN [t EXCEPT !.pc = "get_url"]
                             ELSE Raise(t, "UserLiveException")]
          \/ /\ Fault
             /\ \E kind \in ExceptionKinds :
                  thread' = [thread EXCEPT ![w] = Raise(t, kind)]
    /\ UNCHANGED Others

\* live_url = recorder.tiktok.get_live_url(recorder.room_id)
\* if not live_url: raise Exception
\* the call returns a URL, returns none, or raises
start_recording_get_live_url(w) ==
    /\ thread[w].pc = "get_url"
    /\ LET t == [thread[w] EXCEPT !.n_url = Bump(@)]
       IN \/ /\ NoFault
             /\ thread' = [thread EXCEPT ![w] = [t EXCEPT !.pc = "open"]]
          \/ /\ Fault
             /\ thread' = [thread EXCEPT ![w] =
                   Raise([t EXCEPT !.reason = "no_url"], "Exception")]
          \/ /\ Fault
             /\ \E kind \in ExceptionKinds :
                  thread' = [thread EXCEPT ![w] = Raise(t, kind)]
    /\ UNCHANGED Others

\* os.makedirs(...); buffer = bytearray(); with open(output, "wb") as out_file:
\* stop_recording = False; start_time = time.time()
start_recording_open(w) ==
    /\ thread[w].pc = "open"
    /\ LET t == thread[w]
       IN \/ /\ NoFault
             /\ thread' = [thread EXCEPT ![w] =
                   [t EXCEPT !.pc = "r_while", !.n_open = Bump(@),
                             !.file_open = TRUE, !.out_file = <<>>,
                             !.buffer = <<>>, !.appended = <<>>,
                             !.stop_recording = FALSE, !.brk = FALSE,
                             !.elapsed = 0, !.reason = "none",
                             !.n_fetch = 0, !.n_write = 0,
                             !.n_remux = 0, !.n_upload = 0]]
          \/ /\ Fault
             /\ thread' = [thread EXCEPT ![w] = Raise(t, "Exception")]
    /\ UNCHANGED Others

\* while not stop_recording and not self.stop_event.is_set():
start_recording_while(w) ==
    /\ thread[w].pc = "r_while"
    /\ LET t == thread[w]
       IN thread' = [thread EXCEPT ![w] =
            IF t.stop_recording
            THEN [t EXCEPT !.pc = "close"]
            ELSE IF stop_event
                 THEN [t EXCEPT !.pc = "close", !.saw_stop = TRUE,
                                !.reason = "stop"]
                 ELSE [t EXCEPT !.pc = "r_alive"]]
    /\ UNCHANGED <<Others, faults>>

\* (mutant) the loop that opens the chunk source whatever the liveness answer
start_recording_is_room_alive_Ignored(w) ==
    /\ thread[w].pc = "r_alive"
    /\ thread' = [thread EXCEPT ![w].pc = "r_next", ![w].n_fetch = Bump(@)]
    /\ UNCHANGED <<Others, faults>>

\* if not recorder.tiktok.is_room_alive(recorder.room_id): break
\* otherwise the chunk source is opened: download_live_stream(live_url)
start_recording_is_room_alive(w) ==
    /\ thread[w].pc = "r_alive"
    /\ LET t == thread[w]
       IN \/ /\ NoFault
             /\ thread' = [thread EXCEPT ![w] =
                   IF is_room_alive(w)
                   THEN [t EXCEPT !.pc = "r_next", !.n_fetch = Bump(@)]
                   ELSE [t EXCEPT !.pc = "r_finally", !.brk = TRUE,
                                  !.reason = "ended"]]
          \/ /\ Fault
             /\ thread' = [thread EXCEPT ![w] =
                   [t EXCEPT !.pc = "r_finally", !.stop_recording = TRUE,
                             !.reason = "error"]]
    /\ UNCHANGED Others

\* for chunk in recorder.tiktok.download_live_stream(live_url): the source
\* yields the next chunk, ends, or raises
start_recording_next_chunk(w) ==
    /\ thread[w].pc = "r_next"
    /\ LET t == thread[w]
       IN \/ /\ NoFault
             /\ chunks > 0
             /\ chunks' = chunks - 1
             /\ \E n \in ChunkSizes :
                  thread' = [thread EXCEPT ![w] =
                     [t EXCEPT !.pc = "r_stop",
                               !.chunk = [id |-> Len(t.appended) + 1, len |-> n]]]
          \/ /\ NoFault
             /\ thread' = [thread EXCEPT ![w] = [t EXCEPT !.pc = "r_finally"]]
             /\ UNCHANGED chunks
          \/ /\ Fault
             /\ thread' = [thread EXCEPT ![w] =
                   [t EXCEPT !.pc = "r_finally", !.stop_recording = TRUE,
                             !.reason = "error"]]
             /\ UNCHANGED chunks
    /\ UNCHANGED Shared

\* (mutant) the chunk loop without its stop check
start_recording_chunk_stop_check_Blind(w) ==
    /\ thread[w].pc = "r_stop"
    /\ thread' = [thread EXCEPT ![w].pc = "r_append"]
    /\ UNCHANGED <<Others, faults>>

\* if self.stop_event.is_set(): stop_recording = True; break
start_recording_chunk_stop_check(w) ==
    /\ thread[w].pc = "r_stop"
    /\ LET t == thread[w]
       IN thread' = [thread EXCEPT ![w] =
            IF stop_event
            THEN [t EXCEPT !.pc = "r_finally", !.stop_recording = TRUE,
                           !.saw_stop = TRUE, !.reason = "stop",
                           !.chunk = NoChunk]
            ELSE [t EXCEPT !.pc = "r_append"]]
    /\ UNCHANGED <<Others, faults>>

\* buffer.extend(chunk)
BufferExtend(t) ==
    [t EXCEPT !.buffer = Append(@, t.chunk),
              !.appended = Append(@, t.chunk),
              !.chunk = NoChunk]

start_recording_extend(w) ==
    /\ thread[w].pc = "r_append"
    /\ thread' = [thread EXCEPT ![w] = [BufferExtend(thread[w]) EXCEPT !.pc = "r_flush"]]
    /\ UNCHANGED <<Others, faults>>

\* (mutant) the write that leaves the buffer as it is
WriteBuffer_NoClear(t) ==
    [t EXCEPT !.out_file = @ \o t.buffer, !.n_write = Bump(@)]

\* out_file.write(buffer); buffer.clear()
WriteBuffer(t) ==
    [t EXCEPT !.out_file = @ \o t.buffer, !.buffer = <<>>, !.n_write = Bump(@)]

\* (mutant) the flush test that lets a buffer of exactly buffer_size pass
NeedsFlush_Above(t) == ByteLen(t.buffer) > buffer_size

\* if len(buffer) >= buffer_size: write and clear
NeedsFlush(t) == ByteLen(t.buffer) >= buffer_size

start_recording_flush(w) ==
    /\ thread[w].pc = "r_flush"
    /\ LET t == thread[w]
       IN IF NeedsFlush(t)
          THEN \/ /\ NoFault
                  /\ thread' = [thread EXCEPT ![w] =
                                  [WriteBuffer(t) EXCEPT !.pc = "r_dur"]]
               \/ /\ Fault
                  /\ thread' = [thread EXCEPT ![w] =
                        [t EXCEPT !.pc = "r_finally", !.stop_recording = TRUE,
                                  !.reason = "error"]]
          ELSE /\ NoFault
               /\ thread' = [thread EXCEPT ![w] = [t EXCEPT !.pc = "r_dur"]]
    /\ UNCHANGED Others

\* if recorder.duration and elapsed_time >= recorder.duration
DurationExceeded(t) == duration # 0 /\ t.elapsed >= duration

\* elapsed_time = time.time() - start_time; the duration check
start_recording_duration_check(w) ==
    /\ thread[w].pc = "r_dur"
    /\ LET t == thread[w]
       IN thread' = [thread EXCEPT ![w] =
            IF DurationExceeded(t)
            THEN [t EXCEPT !.pc = "r_finally", !.stop_recording = TRUE,
                           !.reason = "duration"]
            ELSE [t EXCEPT !.pc = "r_next"]]
    /\ UNCHANGED <<Others, faults>>

\* (mutant) the loop that ends whenever the chunk source ends
AfterFinally_Exit(t) == [t EXCEPT !.pc = "close"]

\* where the loop goes after its finally block
AfterFinally(t) == [t EXCEPT !.pc = IF t.brk THEN "close" ELSE "r_while"]

\* finally: if buffer: out_file.write(buffer); buffer.clear()
\*          out_file.flush()
start_recording_finally(w) ==
    /\ thread[w].pc = "r_finally"
    /\ LET t == thread[w]
       IN IF t.buffer # <<>>
          THEN \/ /\ NoFault
                  /\ thread' = [thread EXCEPT ![w] = AfterFinally(WriteBuffer(t))]
               \/ /\ Fault
                  /\ thread' = [thread EXCEPT ![w] =
                        Raise([t EXCEPT !.file_open = FALSE, !.reason = "error"],
                              "Exception")]
          ELSE /\ NoFault
               /\ thread' = [thread EXCEPT ![w] = AfterFinally(t)]
    /\ UNCHANGED Others

\* the with block ends: the file is closed
start_recording_close(w) ==
    /\ thread[w].pc = "close"
    /\ thread' = [thread EXCEPT ![w].pc = "remux", ![w].file_open = FALSE]
    /\ UNCHANGED <<Others, faults>>

\* (mutant) the remux whose failure is not caught
start_recording_remux_Raises(w) ==
    /\ thread[w].pc = "remux"
    /\ LET t == [thread[w] EXCEPT !.n_remux = Bump(@)]
       IN \/ /\ NoFault
             /\ thread' = [thread EXCEPT ![w] =
                   IF use_telegram THEN [t EXCEPT !.pc = "upload"]
                   ELSE ManualReturn(t)]
          \/ /\ Fault
             /\ thread' = [thread EXCEPT ![w] = Raise(t, "Exception")]
    /\ UNCHANGED Others

\* VideoManagement.convert_flv_to_mp4(output)
start_recording_remux(w) ==
    /\ thread[w].pc = "remux"
    /\ LET t == [thread[w] EXCEPT !.n_remux = Bump(@)]
       IN \/ /\ NoFault
             /\ thread' = [thread EXCEPT ![w] =
                   IF use_telegram THEN [t EXCEPT !.pc = "upload"]
                   ELSE ManualReturn(t)]
          \/ /\ Fault
             /\ thread' = [thread EXCEPT ![w] = ManualReturn(t)]
    /\ UNCHANGED Others

\* Telegram().upload(...)
start_recording_upload(w) ==
    /\ thread[w].pc = "upload"
    /\ LET t == [thread[w] EXCEPT !.n_upload = Bump(@)]
       IN /\ \/ NoFault
             \/ Fault
          /\ thread' = [thread EXCEPT ![w] = ManualReturn(t)]
    /\ UNCHANGED Others

\* (mutant) the automatic loop that does not look at the stop event
automatic_mode_while_Blind(w) ==
    /\ thread[w].pc = "a_while"
    /\ thread' = [thread EXCEPT ![w].pc = "a_resolve"]
    /\ UNCHANGED <<Others, faults>>

\* while not self.stop_event.is_set():
automatic_mode_while(w) ==
    /\ thread[w].pc = "a_while"
    /\ LET t == thread[w]
       IN thread' = [thread EXCEPT ![w] =
            IF stop_event
            THEN [t EXCEPT !.pc = "done", !.outcome = "returned",
                           !.saw_stop = TRUE]
            ELSE [t EXCEPT !.pc = "a_resolve"]]
    /\ UNCHANGED <<Others, faults>>

\* A new cycle of the automatic loop: the locals of the previous
\* _start_recording_with_stop_event call are gone, and the calls are counted anew
NewCycle(t) ==
    [t EXCEPT !.buffer = <<>>, !.out_file = <<>>, !.appended = <<>>,
              !.stop_recording = FALSE, !.brk = FALSE, !.elapsed = 0,
              !.reason = "none", !.n_alive = 0, !.n_url = 0, !.n_open = 0,
              !.n_fetch = 0, !.n_write = 0, !.n_remux = 0, !.n_upload = 0]

\* (mutant) the cycle that keeps the room id it already has
automatic_mode_resolve_Stale(w) ==
    /\ thread[w].pc = "a_resolve"
    /\ thread' = [thread EXCEPT ![w] = [NewCycle(thread[w]) EXCEPT !.pc = "m_stop"]]
    /\ UNCHANGED <<Others, faults>>

\* recorder.room_id = recorder.tiktok.get_room_id_from_user(recorder.user)
automatic_mode_resolve(w) ==
    /\ thread[w].pc = "a_resolve"
    /\ LET t == NewCycle(thread[w])
       IN \/ /\ NoFault
             /\ thread' = [thread EXCEPT ![w] =
                   [t EXCEPT !.pc = "m_stop",
                             !.room_id = get_room_id_from_user(w)]]
          \/ /\ Fault
             /\ \E kind \in ExceptionKinds :
                  thread' = [thread EXCEPT ![w] = Raise(t, kind)]
    /\ UNCHANGED Others

\* (mutant) the wait counted in minutes
WaitTicks_Minutes == automatic_interval

\* range(self.automatic_interval * 60)
WaitTicks == automatic_interval * SecondsPerMinute

\* (mutant) the retry wait that returns when it is over
automatic_mode_wait_check_Returns(w) ==
    /\ thread[w].pc = "w_check"
    /\ LET t == thread[w]
       IN thread' = [thread EXCEPT ![w] =
            IF t.wait_i >= WaitTicks \/ stop_event
            THEN [t EXCEPT !.pc = "done", !.outcome = "returned", !.wait_i = 0]
            ELSE [t EXCEPT !.pc = "w_sleep"]]
    /\ UNCHANGED <<Others, faults>>

\* for _ in range(...): if self.stop_event.is_set(): return
automatic_mode_wait_check(w) ==
    /\ thread[w].pc = "w_check"
    /\ LET t == thread[w]
       IN thread' = [thread EXCEPT ![w] =
            IF t.wait_i >= WaitTicks
            THEN [t EXCEPT !.pc = "a_while", !.wait_i = 0]
            ELSE IF stop_event
                 THEN [t EXCEPT !.pc = "done", !.outcome = "returned",
                                !.saw_stop = TRUE, !.wait_i = 0]
                 ELSE [t EXCEPT !.pc = "w_sleep"]]
    /\ UNCHANGED <<Others, faults>>

\* time.sleep(1)
automatic_mode_wait_sleep(w) ==
    /\ thread[w].pc = "w_sleep"
    /\ thread' = [thread EXCEPT ![w].pc = "w_check", ![w].wait_i = @ + 1]
    /\ UNCHANGED <<Others, faults>>

\* the steps of a thread outside the automatic loop
ManualStep(w) ==
    \/ record_stream(w)
    \/ manual_mode_stop_check(w)
    \/ manual_mode_is_room_alive(w)
    \/ start_recording_get_live_url(w)
    \/ start_recording_open(w)
    \/ start_recording_while(w)
    \/ start_recording_is_room_alive(w)
    \/ start_recording_next_chunk(w)
    \/ start_recording_chunk_stop_check(w)
    \/ start_recording_extend(w)
    \/ start_recording_flush(w)
    \/ start_recording_duration_check(w)
    \/ start_recording_finally(w)
    \/ start_recording_close(w)
    \/ start_recording_remux(w)
    \/ start_recording_upload(w)

\* the steps of the automatic loop itself
AutomaticStep(w) ==
    \/ automatic_mode_while(w)
    \/ automatic_mode_resolve(w)
    \/ automatic_mode_wait_check(w)
    \/ automatic_mode_wait_sleep(w)

WorkerStep(w) ==
    \/ ManualStep(w)
    \/ AutomaticStep(w)

-----------------------------------------------------------------------------
(* The environment *)

TargetUsers == {targets[k] : k \in 1 .. Len(targets)}

\* the broadcast of user u starts, in the same room or in a new one
GoLive(u) ==
    /\ u \in TargetUsers
    /\ ~live[u]
    /\ live_changes > 0
    /\ live_changes' = live_changes - 1
    /\ live' = [live EXCEPT ![u] = TRUE]
    /\ \E r \in {cur_room[u], cur_room[u] + 1} :
         /\ r <= MaxRooms
         /\ cur_room' = [cur_room EXCEPT ![u] = r]
    /\ UNCHANGED <<cfgVars, stop_event, recording_threads, thread, main,
                   faults, interrupts, chunks>>

\* the broadcast of user u ends
EndLive(u) ==
    /\ u \in TargetUsers
    /\ live[u]
    /\ live_changes > 0
    /\ live_changes' = live_changes - 1
    /\ live' = [live EXCEPT ![u] = FALSE]
    /\ UNCHANGED <<cfgVars, stop_event, recording_threads, thread, main,
                   cur_room, faults, interrupts, chunks>>

\* one second passes: time.time() - start_time grows for every open recording
Tick ==
    /\ duration # 0
    /\ \E w \in Workers : thread[w].file_open /\ thread[w].elapsed < ElapsedCap
    /\ thread' = [w \in Workers |->
                    IF thread[w].file_open /\ thread[w].elapsed < ElapsedCap
                    THEN [thread[w] EXCEPT !.elapsed = @ + 1]
                    ELSE thread[w]]
    /\ UNCHANGED <<cfgVars, stop_event, recording_threads, main, envVars>>

-----------------------------------------------------------------------------
(* Specifications *)

TypeOK ==
    /\ stop_event \in BOOLEAN
    /\ mode \in Modes
    /\ \A w \in Workers : thread[w].wait_i \in 0 .. WaitTicks

InitWith(T, M, D, U, L, F, I, C, K) ==
    /\ targets \in T
    /\ mode \in M
    /\ automatic_interval = 1
    /\ duration \in D
    /\ use_telegram \in U
    /\ stop_event = FALSE
    /\ recording_threads = <<>>
    /\ thread = [w \in Workers |-> InitThread]
    /\ main = [pc |-> "spawn_loop", ctx |-> "run", i |-> 1, j |-> 1,
               joined |-> [w \in Workers |-> "none"]]
    /\ live \in {l \in [Users -> BOOLEAN] :
                  \A u \in Users :
                     IF \E k \in 1 .. Len(targets) : targets[k] = u
                     THEN l[u] \in L ELSE ~l[u]}
    /\ cur_room = [u \in Users |-> 1]
    /\ faults = F
    /\ interrupts = I
    /\ live_changes = C
    /\ chunks = K

OneTarget == {<<"u1">>}
TwoTargets == {<<"u1", "u2">>, <<"u1", "u1">>}

TaskStep == \E w \in Workers : WorkerStep(w)

\* run() with its recording threads, the environment raising interrupts and
\* exceptions; liveness does not change and the clock is not observed
NextRun ==
    \/ MainStep
    \/ KeyboardInterrupt
    \/ TaskStep

InitRun ==
    \/ InitWith(OneTarget, Modes, {0}, {TRUE}, BOOLEAN,
                RunFaults, RunInterrupts, 0, RunChunks)
    \/ InitWith(TwoTargets, {"MANUAL"}, {0}, {TRUE}, BOOLEAN,
                0, TwoInterrupts, 0, RunChunks)
    \/ InitWith(TwoTargets, {"AUTOMATIC"}, {0}, {TRUE}, {TRUE},
                0, TwoInterrupts, 0, RunChunks)

SpecRun == InitRun /\ [][NextRun]_vars

\* run() interrupted or failing: one target in either mode, or two manual-mode
\* targets whose threads keep recording.  The main thread is never blocked for
\* good: its sleeps end and its joins time out
InitShutdown ==
    \/ InitWith(OneTarget, Modes, {0}, {TRUE}, BOOLEAN,
                RunFaults, RunInterrupts, 0, RunChunks)
    \/ InitWith({<<"u1", "u2">>}, {"MANUAL"}, {0}, {TRUE}, {TRUE},
                0, TwoInterrupts, 0, 0)

FairRun == InitShutdown /\ [][NextRun]_vars /\ WF_vars(MainStep)

\* one target through its whole life cycle, the broadcast starting and ending
NextTask ==
    \/ NextRun
    \/ \E u \in Users : GoLive(u)
    \/ \E u \in Users : EndLive(u)

InitTask(F, U) ==
    InitWith(OneTarget, Modes, {0}, U, BOOLEAN,
             F, MaxInterrupts, MaxLiveChanges, TaskChunks)

Spec == InitTask(MaxFaults, BOOLEAN) /\ [][NextTask]_vars

\* one manual-mode target whose broadcast is live at the start, with the
\* clock running
NextWriter ==
    \/ MainStep
    \/ KeyboardInterrupt
    \/ \E w \in Workers : ManualStep(w)
    \/ \E u \in Users : EndLive(u)
    \/ Tick

InitWriter ==
    InitWith(OneTarget, {"MANUAL"}, 0 .. MaxDuration, {TRUE}, {TRUE},
             MaxFaults, MaxInterrupts, WriterLiveChanges, MaxChunks)

SpecWriter == InitWriter /\ [][NextWriter]_vars

\* The interpreter schedules every thread that can run, and every call a
\* thread makes returns: each thread keeps taking steps
Fairness ==
    /\ WF_vars(MainStep)
    /\ \A w \in Workers : WF_vars(WorkerStep(w))

FairWriter ==
    /\ SpecWriter
    /\ WF_vars(MainStep)
    /\ \A w \in Workers : WF_vars(ManualStep(w))

\* the same life cycle when no call raises
FairSpec == InitTask(0, {TRUE}) /\ [][NextTask]_vars /\ Fairness

\* two automatic-mode targets that are never live
IdleStep(w) ==
    \/ record_stream(w)
    \/ manual_mode_stop_check(w)
    \/ manual_mode_is_room_alive(w)
    \/ AutomaticStep(w)

NextIdle ==
    \/ MainStep
    \/ KeyboardInterrupt
    \/ \E w \in Workers : IdleStep(w)

InitIdle ==
    InitWith({<<"u1", "u2">>}, {"AUTOMATIC"}, {0}, {FALSE}, {FALSE},
             0, MaxInterrupts, 0, 0)

FairIdle ==
    /\ InitIdle
    /\ [][NextIdle]_vars
    /\ WF_vars(MainStep)
    /\ \A w \in Workers : WF_vars(IdleStep(w))

\* two targets recorded side by side, calls raising in either thread or in
\* thread.start; no interrupt arrives
NextPair ==
    \/ MainStep
    \/ TaskStep

InitPair ==
    \/ InitWith(TwoTargets, {"MANUAL"}, {0}, {TRUE}, BOOLEAN,
                PairFaults, 0, 0, PairChunks)
    \/ InitWith(TwoTargets, {"AUTOMATIC"}, {0}, {TRUE}, {TRUE},
                PairFaults, 0, 0, PairChunks)

SpecPair == InitPair /\ [][NextPair]_vars

-----------------------------------------------------------------------------
(* Claims *)

Started(w) == thread[w].pc # "unstarted"

NumTargets == Len(targets)

\* one started thread per target, in target order
AllSpawned ==
    /\ Len(recording_threads) = NumTargets
    /\ \A k \in 1 .. NumTargets : recording_threads[k] = k /\ Started(k)

\* threads are created in target order, at most one per target, and only
\* created threads are started
SpawnedInOrder ==
    /\ Len(recording_threads) <= NumTargets
    /\ \A k \in 1 .. Len(recording_threads) : recording_threads[k] = k
    /\ \A w \in Workers : Started(w) => w \in ThreadsOf

\* every started thread has ended, or the stop event is set and every thread
\* still alive was joined until its timeout
ReturnOk ==
    \/ \A w \in Workers : ~is_alive(w)
    \/ /\ stop_event
       /\ \A w \in Workers : is_alive(w) => main.joined[w] = "timeout"

\* C1 as stated: whenever run has returned, one thread per target was started
\* and each has ended or, the stop event being set, was joined until its timeout.
C1_AsClaimed == main.pc = "returned" => AllSpawned /\ ReturnOk

\* C1 amended: run starts at most one thread per target, in target order, and
\* exactly one per target once the spawn loop has run to its end (an interrupt or
\* error during the loop stops the spawning); when run has returned, every
\* started thread has ended or, the stop event being set, every thread still
\* alive was joined until its timeout.
C1_Thm ==
    /\ SpawnedInOrder
    /\ main.i > NumTargets => AllSpawned
    /\ main.pc = "returned" => ReturnOk

\* run has returned after an interrupt in the spawn loop, with a thread that
\* outlived its join timeout
C1_Witness ==
    /\ main.pc = "returned"
    /\ stop_event
    /\ Len(recording_threads) < NumTargets
    /\ \E w \in Workers : is_alive(w) /\ main.joined[w] = "timeout"

InWait(w) == thread[w].pc \in {"w_check", "w_sleep"}

Done(w) == thread[w].pc = "done"

\* once the stop event is set no thread begins another time.sleep(1) of the
\* retry wait: at most the one in progress completes
NoNewSleep ==
    \A w \in Workers :
       stop_event /\ thread'[w].pc = "w_sleep" => thread[w].pc = "w_sleep"

\* C2 as stated: once the stop event is set, no thread appends a further chunk
\* to its buffer.
C2_AsClaimed ==
    [][\A w \in Workers :
          stop_event => Len(thread'[w].appended) <= Len(thread[w].appended)]_vars

\* once the stop event is set no chunk passes the stop check any more
NoChunkPassesCheck ==
    \A w \in Workers :
       stop_event /\ thread'[w].pc = "r_append" => thread[w].pc = "r_append"

\* a chunk is appended only by the thread that holds it past its stop check
AppendOnlyPastCheck ==
    \A w \in Workers :
       Len(thread'[w].appended) > Len(thread[w].appended)
          => /\ thread[w].pc = "r_append"
             /\ thread'[w].pc = "r_flush"
             /\ thread'[w].appended = Append(thread[w].appended, thread[w].chunk)

\* C2 amended: once the stop event is set, a thread in the retry wait begins no
\* further one-second sleep and terminates, and a thread in the recording loop
\* appends at most the one chunk that had passed its stop check before the event
\* was set: a chunk delivered after the event is set is never appended.
C2_Thm ==
    /\ [][NoNewSleep /\ NoChunkPassesCheck /\ AppendOnlyPastCheck]_vars
    /\ \A w \in Workers : (stop_event /\ InWait(w)) ~> Done(w)

\* the stop event has been set while a thread holds a chunk that has passed
\* its stop check and is about to be appended
C2_Witness ==
    \E w \in Workers :
       /\ stop_event
       /\ thread[w].pc = "r_append"
       /\ thread[w].chunk # NoChunk
       /\ ~thread[w].saw_stop

-----------------------------------------------------------------------------
Stepped(w) == thread'[w].pc # thread[w].pc

LoopExited(w) == thread[w].pc \in {"close", "remux", "upload"}

\* C3: in the recording loop the bytes written to the file followed by the
\* bytes in the buffer are, at every point, the chunks appended so far in arrival
\* order; after every pass through the finally block and on every exit of the
\* loop the buffer is empty and the file holds every chunk appended.
C3_Thm ==
    \A w \in Workers :
       /\ thread[w].out_file \o thread[w].buffer = thread[w].appended
       /\ \A k \in 1 .. Len(thread[w].appended) : thread[w].appended[k].id = k
       /\ thread[w].pc = "r_while" \/ LoopExited(w)
             => thread[w].buffer = <<>> /\ thread[w].out_file = thread[w].appended

\* the chunk source raised with 400 KiB buffered, and the loop has been left
\* with those bytes in the file
C3_Witness ==
    \E w \in Workers :
       /\ thread[w].pc = "close"
       /\ thread[w].reason = "error"
       /\ thread[w].n_write = 1
       /\ ByteLen(thread[w].out_file) = 400 * KiB

\* C4 as stated: with a duration configured, an attempt whose elapsed time has
\* reached the duration ends, whatever the chunk source delivers.
C4_AsClaimed ==
    \A w \in Workers :
       (thread[w].file_open /\ duration # 0 /\ thread[w].elapsed >= duration)
          ~> ~thread[w].file_open

\* C5: the stop event is never reset; a thread that has seen it set only winds
\* down (leaves the loop, post-processes, returns) and terminates: it resolves no
\* room, checks no liveness and opens no file or chunk source; the automatic loop
\* goes back to resolving only while the event is unset, and a recording stopped
\* by the event is never followed by another cycle.
WindDown == {"r_finally", "r_while", "close", "remux", "upload", "a_while", "done"}

C5_Thm ==
    /\ [][stop_event => stop_event']_vars
    /\ [][\A w \in Workers :
            /\ thread[w].saw_stop => thread'[w].saw_stop
            /\ thread[w].saw_stop /\ Stepped(w)
                  => thread[w].pc \in WindDown /\ thread'[w].pc \in WindDown
                        /\ thread'[w].pc # "r_finally"
            /\ thread'[w].pc = "a_resolve" /\ Stepped(w) => ~stop_event
            /\ thread[w].reason = "stop" => thread[w].saw_stop]_vars
    /\ \A w \in Workers : thread[w].saw_stop ~> Done(w)

\* an automatic-mode recording stopped by the stop event, about to be remuxed
C5_Witness ==
    \E w \in Workers :
       /\ mode = "AUTOMATIC"
       /\ thread[w].saw_stop
       /\ thread[w].reason = "stop"
       /\ thread[w].pc = "remux"

\* C6: in manual mode a thread whose liveness check answers false terminates
\* with that very step, with the not-live outcome, and has requested no stream
\* URL, opened no file, written nothing and post-processed nothing.
C6_Thm ==
    [][\A w \in Workers :
          mode = "MANUAL" /\ thread[w].pc = "m_alive" /\ Stepped(w)
             /\ ~is_room_alive(w) /\ faults' = faults
          => /\ thread'[w].pc = "done"
             /\ thread'[w].outcome = "UserLiveException"
             /\ thread'[w].n_url = 0
             /\ thread'[w].n_open = 0
             /\ thread'[w].n_write = 0
             /\ thread'[w].n_remux = 0
             /\ thread'[w].n_upload = 0
             /\ thread'[w].out_file = <<>>
             /\ ~thread'[w].file_open]_vars

\* a manual-mode thread that ended on its one liveness check, no call having raised
C6_Witness ==
    \E w \in Workers :
       /\ mode = "MANUAL"
       /\ Done(w)
       /\ thread[w].outcome = "UserLiveException"
       /\ thread[w].n_alive = 1
       /\ thread[w].n_url = 0
       /\ faults = MaxFaults

\* Scenario B: three chunks of 200 KiB have been appended, all of them yielded
\* by the first download_live_stream call, the only one made so far
ChunksB == [k \in 1 .. 3 |-> [id |-> k, len |-> 200 * KiB]]

ScenarioB(w) ==
    /\ mode = "MANUAL"
    /\ NumTargets = 1
    /\ thread[w].appended = ChunksB
    /\ thread[w].n_fetch = 1

\* C7 as stated: in scenario B the chunk source is not opened a second time.
C7_AsClaimed == [][\A w \in Workers : ScenarioB(w) => thread'[w].n_fetch = 1]_vars

\* C7 amended: in scenario B the buffer is written to the file exactly once,
\* when the third chunk brings it to 600 KiB; when the source ends the buffer is
\* already empty and nothing more is written; the file holds exactly 600 KiB;
\* and the thread does not finish because the source ended: it leaves the loop
\* only when the liveness check answers false, the stop event is set, the
\* duration has elapsed or an error occurred.
C7_Thm ==
    \A w \in Workers :
       /\ ScenarioB(w) /\ thread[w].pc # "r_flush" /\ thread[w].reason # "error"
             => /\ thread[w].n_write = 1
                /\ thread[w].buffer = <<>>
                /\ ByteLen(thread[w].out_file) = 600 * KiB
       /\ mode = "MANUAL" /\ (LoopExited(w) \/ (Done(w) /\ thread[w].n_open > 0))
             => thread[w].reason \in {"ended", "stop", "duration", "error"}

\* scenario B ended by the liveness check answering false after one fetch
C7_Witness ==
    \E w \in Workers :
       /\ ScenarioB(w)
       /\ Done(w)
       /\ thread[w].reason = "ended"
       /\ thread[w].n_fetch = 1
       /\ thread[w].n_write = 1
       /\ ByteLen(thread[w].out_file) = 600 * KiB

\* C8: automatic-mode threads whose targets are never live open no file and do
\* not terminate while the stop event is unset; while it is unset each goes
\* from the end of the retry wait back to resolving and from the liveness check
\* into the retry wait, whatever the other does; once the stop event is set
\* each of them terminates.
IdleCycleSteps ==
    \A w \in Workers :
       /\ thread'[w].n_open = 0 /\ ~thread'[w].file_open
       /\ Done(w)' => stop_event
       /\ ~stop_event /\ Stepped(w) =>
             /\ thread[w].pc = "w_check" /\ thread[w].wait_i >= WaitTicks
                   => thread'[w].pc = "a_while"
             /\ thread[w].pc = "a_while" => thread'[w].pc = "a_resolve"
             /\ thread[w].pc = "a_resolve" => thread'[w].pc = "m_stop"
             /\ thread[w].pc = "m_stop" => thread'[w].pc = "m_alive"
             /\ thread[w].pc = "m_alive"
                   => thread'[w].pc = "w_check" /\ thread'[w].wait_i = 0

C8_Thm ==
    /\ [][IdleCycleSteps]_vars
    /\ \A w \in Workers : (stop_event /\ Started(w)) ~> Done(w)

\* both threads are in the retry wait, one at its end, the stop event unset
C8_Witness ==
    /\ ~stop_event
    /\ thread[1].pc = "w_check"
    /\ thread[1].wait_i = WaitTicks
    /\ thread[2].pc = "w_sleep"

\* C9: in automatic mode, while the stop event is unset, the cycle after a
\* retry wait resolves the room id again, checks liveness with that room id, and
\* on a live answer goes on to the stream URL and the output file; a target that
\* is live and stays live while the thread waits is therefore recorded.
FirstCycleSteps ==
    \A w \in Workers :
       mode = "AUTOMATIC" /\ ~stop_event /\ Stepped(w) =>
          /\ thread[w].pc = "w_check" /\ thread[w].wait_i >= WaitTicks
                => thread'[w].pc = "a_while"
          /\ thread[w].pc = "a_while" => thread'[w].pc = "a_resolve"
          /\ thread[w].pc = "a_resolve"
                => /\ thread'[w].pc = "m_stop"
                   /\ thread'[w].room_id = cur_room[UserOf(w)]
          /\ thread[w].pc = "m_stop" => thread'[w].pc = "m_alive"
          /\ thread[w].pc = "m_alive" /\ is_room_alive(w)
                => thread'[w].pc = "get_url"
          /\ thread[w].pc = "get_url" => thread'[w].pc = "open"
          /\ thread[w].pc = "open"
                => thread'[w].pc = "r_while" /\ thread'[w].file_open

C9_Thm ==
    /\ [][FirstCycleSteps]_vars
    /\ \A w \in Workers :
          (mode = "AUTOMATIC" /\ InWait(w) /\ live[UserOf(w)] /\ live_changes = 0)
             ~> (thread[w].file_open \/ stop_event)

\* a liveness check has failed and the retry wait that followed is over; the
\* target has gone live in a new room meanwhile and stays live; the thread,
\* still holding the room id it resolved before the wait, is back at the loop head
C9_Witness ==
    \E w \in Workers :
       /\ mode = "AUTOMATIC"
       /\ ~stop_event
       /\ thread[w].pc = "a_while"
       /\ thread[w].n_alive = 1
       /\ thread[w].n_url = 0
       /\ thread[w].room_id = 1
       /\ cur_room[UserOf(w)] = 2
       /\ live[UserOf(w)]
       /\ live_changes = 0

\* C10 as stated: in automatic mode a resolve call that raises sends the thread
\* to the retry wait.
C10_AsClaimed ==
    [][\A w \in Workers :
          mode = "AUTOMATIC" /\ thread[w].pc = "a_resolve" /\ Stepped(w)
             /\ faults' < faults
          => thread'[w].pc = "w_check"]_vars

\* C11 as stated: when the room is live and get_live_url returns no URL, no
\* output file is opened, and the thread terminates with the failure in manual
\* mode and enters the retry wait in automatic mode.
C11_AsClaimed ==
    [][\A w \in Workers :
          thread[w].pc = "get_url" /\ Stepped(w) /\ thread'[w].reason = "no_url"
          => /\ thread'[w].n_open = 0 /\ ~thread'[w].file_open
             /\ mode = "MANUAL"
                   => thread'[w].pc = "done" /\ thread'[w].outcome = "Exception"
             /\ mode = "AUTOMATIC" => thread'[w].pc = "w_check"]_vars

\* the positions inside _start_recording_with_stop_event once the file is open
InAttempt(w) ==
    thread[w].pc \in {"r_while", "r_alive", "r_next", "r_stop", "r_append",
                      "r_flush", "r_dur", "r_finally", "close", "remux", "upload"}

\* C12 as stated: in automatic mode, while the stop event is unset, a thread
\* whose recording attempt failed with a source or I/O error leaves the attempt
\* for the retry wait: it neither terminates nor goes back to the loop head.
C12_AsClaimed ==
    [][\A w \in Workers :
          /\ mode = "AUTOMATIC"
          /\ ~stop_event
          /\ InAttempt(w) /\ ~InAttempt(w)'
          /\ thread[w].reason = "error" \/ thread'[w].reason = "error"
          => thread'[w].pc = "w_check"]_vars

\* a step of a started thread touches nothing but that thread's own record
\* (and what the environment still has in store)
OwnRecordOnly ==
    \A w \in Workers :
       Started(w) /\ Stepped(w)
          => /\ stop_event' = stop_event
             /\ main' = main
             /\ recording_threads' = recording_threads
             /\ cfgVars' = cfgVars
             /\ live' = live /\ cur_room' = cur_room
             /\ \A v \in Workers \ {w} : thread'[v] = thread[v]

\* the stop event is set by stop_all_recordings only
SetByMainOnly == stop_event' # stop_event => main.pc = "stop_set" /\ stop_event'

\* C13: whatever happens in one thread (not live, no URL, an exception from
\* any call, a post-processing error, its termination), that thread's steps
\* change no state but its own, the stop event is set by the main thread only,
\* and run does not return, while the stop event is unset, before every thread
\* has ended.
C13_Thm ==
    /\ [][OwnRecordOnly /\ SetByMainOnly]_vars
    /\ [](main.pc = "returned" /\ ~stop_event
            => \A w \in Workers : ~is_alive(w))
    /\ [](main.pc # "raised")

\* one thread has ended on an exception; the other one is recording and has
\* just appended a chunk; the stop event is unset and run is waiting
C13_Witness ==
    /\ ~stop_event
    /\ main.pc \in {"wait_poll", "wait_sleep"}
    /\ Done(1)
    /\ thread[1].outcome = "Exception"
    /\ thread[2].pc = "r_flush"
    /\ thread[2].file_open

Interrupted == interrupts' < interrupts

ShuttingDown == main.pc \in {"stop_set", "stop_join", "stop_joining"}

\* what run's handlers do, step by step
HandlerSteps ==
    /\ Interrupted /\ main.ctx \in {"run", "wait"} => main'.pc = "stop_set"
    /\ main.pc = "spawn_start" /\ faults' < faults /\ main' # main
          => main'.pc = "stop_set"
    /\ main.pc = "stop_set" /\ main'.pc # "stop_set" /\ ~Interrupted
          => stop_event' /\ main'.pc = "stop_join" /\ main'.j = 1
    /\ main.pc = "stop_join" /\ main'.pc = "returned"
          => main.j > Len(recording_threads)
    /\ main.pc = "stop_join" /\ main'.j > main.j /\ ~Interrupted
          => ~is_alive(recording_threads[main.j])
    /\ main'.pc = "raised" /\ main.pc # "raised"
          => Interrupted /\ main.ctx = "run_except"

\* C14: an interruption arriving during the spawn loop or the wait for
\* completion, and an error raised by thread.start, take the main thread to
\* stop_all_recordings: the stop event is set, every thread still alive is
\* joined until it ends or its timeout elapses, and run returns; it returns
\* also when a thread outlives its timeout, and it raises only if a further
\* interruption arrives while its own handler is shutting down.
C14_Thm ==
    /\ [][HandlerSteps]_vars
    /\ [](main.pc \in {"stop_join", "stop_joining"} => stop_event)
    /\ [](main.pc = "returned" /\ stop_event
            => \A w \in ThreadsOf : is_alive(w) => main.joined[w] = "timeout")
    /\ ShuttingDown ~> main.pc \in {"returned", "raised"}

\* run has returned from its handler for an interruption that arrived during
\* the wait for completion, with a thread that outlived its join timeout
C14_Witness ==
    /\ main.pc = "returned"
    /\ main.ctx = "wait_except"
    /\ stop_event
    /\ NumTargets = 2
    /\ \A w \in ThreadsOf : is_alive(w) /\ main.joined[w] = "timeout"
    /\ Len(recording_threads) = NumTargets

TargetIndexes == 1 .. NumTargets

\* C15: the output file name carries the thread name exactly when there is
\* more than one target; the thread names of one run are pairwise distinct, also
\* for duplicate targets; so two threads that have a file open at the same time
\* have different output paths, whatever the dates they read.
C15_Thm ==
    /\ \A w \in TargetIndexes :
          /\ output_suffix(w) # "" <=> NumTargets > 1
          /\ NumTargets > 1 => output_suffix(w) = "_" \o thread_name(w)
    /\ \A v, w \in TargetIndexes : v # w => thread_name(v) # thread_name(w)
    /\ \A v, w \in TargetIndexes :
          v # w /\ thread[v].file_open /\ thread[w].file_open
             => \A d, e \in Dates : output(v, d) # output(w, e)

\* two threads recording the same user both have their file open
C15_Witness ==
    /\ targets = <<"u1", "u1">>
    /\ thread[1].file_open
    /\ thread[2].file_open
    /\ output(1, "2026.11.03_10-00-00")
          = "u1/TK_u1_2026.11.03_10-00-00_Stream-1-u1_flv.mp4"

\* the attempt of thread w that opened a file is over
AttemptOver(w) == thread[w].n_open = 1 /\ ~InAttempt(w)

PostProcessingOrder ==
    \A w \in Workers :
       /\ thread[w].n_remux <= 1 /\ thread[w].n_upload <= 1
       /\ thread[w].n_open = 0 => thread[w].n_remux = 0 /\ thread[w].n_upload = 0
       /\ thread[w].pc = "remux"
             => ~thread[w].file_open /\ thread[w].n_remux = 0
                   /\ thread[w].n_open = 1
       /\ thread[w].pc = "upload"
             => /\ use_telegram /\ ~thread[w].file_open
                /\ thread[w].n_remux = 1 /\ thread[w].n_upload = 0
       /\ thread[w].n_upload > 0 => use_telegram /\ thread[w].n_remux = 1
       /\ AttemptOver(w) /\ thread[w].reason \in {"ended", "duration", "stop"}
             => thread[w].n_remux = 1

\* a post-processing call that raises is followed by what follows a
\* post-processing that succeeded: the return of _start_recording_with_stop_event
PostProcessingFailure ==
    \A w \in Workers :
       thread[w].pc \in {"remux", "upload"} /\ Stepped(w) /\ faults' < faults
          => /\ thread'[w].pc = IF mode = "MANUAL" THEN "done" ELSE "a_while"
             /\ thread'[w].outcome = IF mode = "MANUAL" THEN "returned" ELSE "none"
             /\ thread'[w].reason = thread[w].reason

\* C16: an attempt that opened a file and ended finished or stopped is remuxed
\* exactly once, after the file is closed and before the thread goes back to the
\* loop head or terminates; upload is called at most once per attempt, only when
\* use_telegram is set and only after the remux; nothing is post-processed when
\* no file was opened; a failing remux or upload is followed by the same step
\* as a successful post-processing.
C16_Thm ==
    /\ []PostProcessingOrder
    /\ [][PostProcessingFailure]_vars

\* an automatic-mode attempt ended by the end of the broadcast whose remux
\* raised: no upload was made and the thread is back at the loop head
C16_Witness ==
    \E w \in Workers :
       /\ mode = "AUTOMATIC"
       /\ use_telegram
       /\ thread[w].pc = "a_while"
       /\ thread[w].reason = "ended"
       /\ thread[w].n_open = 1
       /\ thread[w].n_remux = 1
       /\ thread[w].n_upload = 0

\* how far a manual-mode thread has come: the stages of its life in order,
\* the recording loop being one stage
ManualRank(pc) ==
    CASE pc = "unstarted" -> 0
      [] pc = "init" -> 1
      [] pc = "m_stop" -> 2
      [] pc = "m_alive" -> 3
      [] pc = "get_url" -> 4
      [] pc = "open" -> 5
      [] pc = "close" -> 7
      [] pc = "remux" -> 8
      [] pc = "upload" -> 9
      [] pc = "done" -> 10
      [] OTHER -> 6

LoopRank == ManualRank("r_while")

ManualOnce ==
    \A w \in Workers :
       mode = "MANUAL" =>
          /\ thread'[w].n_alive <= 1 /\ thread'[w].n_url <= 1
          /\ thread'[w].n_open <= 1
          /\ ManualRank(thread'[w].pc) >= ManualRank(thread[w].pc)
          /\ Stepped(w) /\ ManualRank(thread[w].pc) # LoopRank
                => ManualRank(thread'[w].pc) > ManualRank(thread[w].pc)
          /\ Stepped(w) /\ ManualRank(thread[w].pc) = LoopRank
                /\ ManualRank(thread'[w].pc) > LoopRank
                => thread'[w].pc \in {"close", "done"}

\* C17: a manual-mode thread checks liveness before recording at most once and
\* opens at most one output file; it never goes back to an earlier stage, and
\* once its attempt has left the recording loop, by the loop's end or by an
\* exception, every step takes it nearer to its end: close, remux, upload,
\* termination.
C17_Thm == [][ManualOnce]_vars

\* a manual-mode thread has terminated after its one attempt, which ended on
\* an error
C17_Witness ==
    \E w \in Workers :
       /\ mode = "MANUAL"
       /\ Done(w)
       /\ thread[w].n_alive = 1
       /\ thread[w].n_open = 1
       /\ thread[w].reason = "error"

BelowThreshold(w) == ByteLen(thread[w].buffer) < buffer_size

\* the write of line 248 raised: the loop is on its way out with the buffer
\* still to be written by the finally block
FlushFailed(w) ==
    thread[w].reason = "error" /\ thread[w].pc \in {"r_finally", "done"}

\* C18: at the loop head, at the liveness check, when the next chunk is
\* fetched, checked or appended, and at the duration check, the buffer holds
\* fewer than buffer_size bytes; it holds buffer_size bytes or more only between
\* an append and the flush test that follows it (or after the write of that
\* flush raised); a flush that does not raise writes the whole buffer to the
\* file and empties it.
C18_Thm ==
    /\ [](\A w \in Workers :
            /\ thread[w].pc \in {"r_while", "r_alive", "r_next", "r_stop",
                                 "r_append", "r_dur"} => BelowThreshold(w)
            /\ ~BelowThreshold(w) => thread[w].pc = "r_flush" \/ FlushFailed(w))
    /\ [][\A w \in Workers :
            thread[w].pc = "r_flush" /\ Stepped(w) /\ ~BelowThreshold(w)
               /\ faults' = faults
            => /\ thread'[w].out_file = thread[w].out_file \o thread[w].buffer
               /\ thread'[w].buffer = <<>>
               /\ thread'[w].pc = "r_dur"]_vars

\* a single chunk of exactly buffer_size bytes has been appended and flushed
C18_Witness ==
    \E w \in Workers :
       /\ thread[w].pc = "r_dur"
       /\ thread[w].buffer = <<>>
       /\ thread[w].n_write = 1
       /\ Len(thread[w].out_file) = 1
       /\ ByteLen(thread[w].out_file) = buffer_size

\* the steps around the liveness query of the recording loop
LivenessGate ==
    \A w \in Workers :
       /\ Stepped(w) /\ thread'[w].pc = "r_next" /\ thread[w].pc # "r_dur"
             => thread[w].pc = "r_alive" /\ is_room_alive(w)
       /\ Stepped(w) /\ thread[w].pc = "r_alive" /\ ~is_room_alive(w)
             /\ faults' = faults
             => /\ thread'[w].pc = "r_finally"
                /\ thread'[w].brk
                /\ thread'[w].reason = "ended"
       /\ InAttempt(w) /\ thread[w].reason = "ended"
             => /\ thread'[w].appended = thread[w].appended
                /\ thread'[w].n_fetch = thread[w].n_fetch
                /\ thread'[w].pc \in {"r_finally", "close", "remux", "upload",
                                      "a_while", "done"}

\* C19: the chunk source is opened only by the step that follows a liveness
\* query answered live; when the query answers that the broadcast ended, the
\* loop is left through the finally block: the source is not opened again, no
\* further chunk is appended, and once the loop is left the file holds every
\* chunk that was appended.
C19_Thm ==
    /\ [][LivenessGate]_vars
    /\ [](\A w \in Workers :
            thread[w].reason = "ended" /\ (LoopExited(w) \/ Done(w))
               => thread[w].buffer = <<>>
                     /\ thread[w].out_file = thread[w].appended)

\* the broadcast ended after one chunk: the loop has been left after a single
\* fetch, with the chunk in the file
C19_Witness ==
    \E w \in Workers :
       /\ thread[w].pc = "close"
       /\ thread[w].reason = "ended"
       /\ thread[w].n_fetch = 1
       /\ Len(thread[w].appended) = 1
       /\ thread[w].out_file = thread[w].appended

\* the steps of the retry wait
RetryWaitSteps ==
    \A w \in Workers :
       /\ Stepped(w) /\ thread'[w].pc = "w_check" /\ ~InWait(w)
             => thread'[w].wait_i = 0
       /\ Stepped(w) /\ thread[w].pc = "w_check"
             => thread'[w].pc =
                   IF thread[w].wait_i = automatic_interval * SecondsPerMinute
                   THEN "a_while"
                   ELSE IF stop_event THEN "done" ELSE "w_sleep"
       /\ Stepped(w) /\ thread[w].pc = "w_sleep"
             => /\ thread'[w].pc = "w_check"
                /\ thread'[w].wait_i = thread[w].wait_i + 1
       /\ InWait(w)
             => /\ thread'[w].room_id = thread[w].room_id
                /\ thread'[w].n_alive = thread[w].n_alive
                /\ thread'[w].n_url = thread[w].n_url
       /\ Stepped(w) /\ thread'[w].pc = "a_resolve" => thread[w].pc = "a_while"

\* C20: in automatic mode the retry wait starts at tick zero, tests the stop
\* event before each one-second sleep, and with the event unset makes exactly
\* automatic_interval * 60 sleeps before it returns to the loop head; no room id
\* is resolved and no liveness is checked during the wait, and the next resolve
\* is made from the loop head only.
C20_Thm ==
    /\ [][RetryWaitSteps]_vars
    /\ [](\A w \in Workers :
            thread[w].wait_i <= automatic_interval * SecondsPerMinute)

\* the last sleep of a retry wait is over and the stop event is unset
C20_Witness ==
    \E w \in Workers :
       /\ mode = "AUTOMATIC"
       /\ ~stop_event
       /\ thread[w].pc = "w_check"
       /\ thread[w].wait_i = automatic_interval * SecondsPerMinute
       /\ thread[w].n_alive = 1

\* the step of line 231 that creates the output file of worker w
OpensFile(w) ==
    /\ thread[w].pc = "open"
    /\ ~thread[w].file_open
    /\ thread'[w].file_open

\* C21 (as claimed): no worker creates its output file in a state where the
\* stop event is already set, so that a stop request arriving between the stop
\* check of line 165 and the open of line 231 never leaves an empty file to be
\* post-processed.  The code tests the event at line 165 and next at line 235,
\* after the file has been created.
C21_AsClaimed ==
    [][\A w \in Workers : OpensFile(w) => ~stop_event]_vars

====
